---------------------------- MODULE Spec2Model ----------------------------
(***************************************************************************)
(* Model of the module-combination optimizer of StarResonanceAutoMod       *)
(* (src/module_optimizer.py): ModuleOptimizer.optimize_modules, the        *)
(* campaign worker run_single_ga_campaign, and the scorers                 *)
(* calculate_fitness and calculate_combat_power.                           *)
(*                                                                         *)
(* Conventions                                                             *)
(*  - A module is named by its uuid (a number); ModuleInfoOf gives its     *)
(*    config_id and parts.  A module list is a sequence of uuids.          *)
(*  - Attribute names are ASCII stand-ins for the game's names:            *)
(*      "Strength" = 力量加持   "Agility" = 敏捷加持                        *)
(*      "AttackSpeed" = 攻速专注 "Intellect" = 智力加持                     *)
(*      "CastFocus" = 施法专注   "SpecialAttack" = 特攻伤害                 *)
(*      "EliteStrike" = 精英打击 "MagicResist" = 抵御魔法                   *)
(*      "PhysResist" = 抵御物理  "SpecialHeal" = 特攻治疗加持               *)
(*      "MasteryHeal" = 专精治疗加持  "CritFocus" = 暴击专注                *)
(*  - calculate_fitness returns a float whose only fractional term is      *)
(*    0.1 * (sum of the breakdown); the model keeps ten times the value    *)
(*    as an integer, which preserves every comparison the code makes.      *)
(*  - random.* calls are nondeterministic choices (\E).                    *)
(***************************************************************************)
EXTENDS Integers, Sequences, FiniteSets, TLC

VARIABLES
    num_campaigns,        \* self.num_campaigns = max(1, os.cpu_count() - 1)
    pc,                   \* position of optimize_modules: "idle", "campaigns",
                          \* "refine", "done"
    arg_modules,          \* argument modules
    category,             \* argument category
    prioritized_attrs,    \* argument prioritized_attrs (a set; {} = None / empty)
    module_pool,          \* module_pool after the category and strict filters
    candidate_modules,    \* list returned by prefilter_modules
    high_quality_modules, \* pool handed to the campaign workers
    low_quality_modules,
    futures,              \* one campaign worker per submitted future
    consumed,             \* futures already yielded by as_completed
    all_best_solutions,
    progress,             \* messages delivered to progress_callback
    result,               \* list returned by optimize_modules
    call,                 \* a direct call of a scorer: the function and its arguments
    returned,             \* the value that call returned
    frame                 \* the locals of a local search that is running, and
                          \* the value it returns once it has returned

\* what the call fixes before the campaigns are submitted
setup == <<num_campaigns, arg_modules, category, prioritized_attrs, module_pool, candidate_modules,
           high_quality_modules, low_quality_modules>>

\* an optimize_modules call and its campaigns
optimizer == <<pc, setup, futures, consumed, all_best_solutions, progress, result>>

\* a direct call of a scorer
scorer == <<call, returned, frame>>

vars == <<optimizer, scorer>>

-----------------------------------------------------------------------------
(* Bounds of the model *)

\* self.num_campaigns = max(1, os.cpu_count() - 1): the number of campaign
\* workers, in Spec and in SpecCampaigns
NumCampaigns == 1
MoreCampaigns == 2

\* ga_params scaled down; the reference values are population_size 100,
\* tournament_size 5, generations 40, elite count int(100*0.1) = 10 and
\* local-search count int(100*0.3) = 30.  The scaled values keep the
\* relations of the reference ones: 1 < tournament_size <= population_size,
\* elite_count + 2k = population_size, elite_count <= local_search_count.
population_size == 3
tournament_size == 2
generations == 1
elite_count == 1
local_search_count == 1

\* solutions_to_refine = unique_solutions[:30], scaled down.
RefineLimit == 2

\* values offered for the argument top_n
MaxTopN == 4

\* prefilter_top_n_per_attr and prefilter_top_n_total_value of the optimizer
\* whose prefilter is called on its own, scaled below the size of the pools
\* (the reference values are 30 and 50)
ScaledTopNPerAttr == 1
ScaledTopNTotalValue == 2

-----------------------------------------------------------------------------
(* Attribute classes, src/module_optimizer.py:23-27 *)

PHYSICAL_ATTRIBUTES == {"Strength", "Agility", "AttackSpeed"}
MAGIC_ATTRIBUTES == {"Intellect", "CastFocus"}
ATTACK_ATTRIBUTES == {"SpecialAttack", "EliteStrike", "Strength", "Agility", "Intellect"}
GUARDIAN_ATTRIBUTES == {"MagicResist", "PhysResist"}
SUPPORT_ATTRIBUTES == {"SpecialHeal", "MasteryHeal"}

quality_threshold == 12
prefilter_top_n_per_attr == 30
prefilter_top_n_total_value == 50

-----------------------------------------------------------------------------
(* Generic helpers *)

Max2(a, b) == IF a >= b THEN a ELSE b
Min2(a, b) == IF a <= b THEN a ELSE b

Range(s) == {s[i] : i \in DOMAIN s}

RECURSIVE SumSet(_, _)
\* sum of f[x] over the finite set S
SumSet(f, S) ==
    IF S = {} THEN 0
    ELSE LET x == CHOOSE y \in S : TRUE IN f[x] + SumSet(f, S \ {x})

\* s[:n]
Take(s, n) == SubSeq(s, 1, Min2(n, Len(s)))

\* list.sort(key=..., reverse=True) on the list s whose keys are the list
\* k (k[i] the key of s[i]): descending, and stable, so elements of equal
\* key keep their order
SortDescBy(s, k) ==
    LET n == Len(s)
        pos(i) == 1 + Cardinality({j \in 1..n : k[j] > k[i] \/ (k[j] = k[i] /\ j < i)})
    IN [p \in 1..n |-> s[CHOOSE i \in 1..n : pos(i) = p]]

\* list.sort(key=lambda m: m.uuid) on a list of uuids (ascending, stable)
RECURSIVE SortByUuid(_)
SortByUuid(s) ==
    IF s = <<>> THEN <<>>
    ELSE LET rest == SortByUuid(SubSeq(s, 1, Len(s) - 1))
             x == s[Len(s)]
             before == SelectSeq(rest, LAMBDA y : y <= x)
             after == SelectSeq(rest, LAMBDA y : y > x)
         IN before \o <<x>> \o after

-----------------------------------------------------------------------------
(* Static tables of module_types.py, which is not among the source files.  *)
(* The thresholds are the ones the tier labels of _get_attribute_level_key *)
(* use; the power tables map a tier to a power value.                      *)

ATTR_THRESHOLDS == <<1, 4, 8, 12, 16, 20>>
BASIC_ATTR_POWER_MAP == <<7, 14, 29, 44, 167, 254>>
SPECIAL_ATTR_POWER_MAP == <<14, 29, 59, 89, 298, 448>>
\* ATTR_NAME_TYPE_MAP.get(attr_name, "basic")
AttrType(attr_name) == "basic"
\* TOTAL_ATTR_POWER_MAP.get(total_attr_value, 0)
TotalAttrPower(total_attr_value) ==
    IF total_attr_value \in 0..120 THEN 5 * total_attr_value ELSE 0

-----------------------------------------------------------------------------
(* The modules the model draws its pools from: ModuleInfo records          *)
(* (config_id, uuid, parts) as the parser emits them.  Modules 1..5 are of *)
(* high quality (part values sum to at least 12) and of the attack         *)
(* category; module 6 is of low quality, of the guardian category, carries *)
(* an attribute of the magic class and a part whose value is 0             *)
(* (attr_value = init_link_nums[i] can be any non-negative integer).       *)
(* Module 7, of low quality, is offered to the direct calls of the helpers *)
(* only.                                                                   *)

Part(name, value) == [name |-> name, value |-> value]

ModuleInfoOf ==
    [u \in 1..7 |->
        CASE u \in {1, 2} -> [config_id |-> 1, parts |-> <<Part("CritFocus", 12)>>]
          [] u \in {3, 4} -> [config_id |-> 1, parts |-> <<Part("Strength", 12)>>]
          [] u = 5        -> [config_id |-> 1, parts |-> <<Part("CritFocus", 2), Part("EliteStrike", 10),
                                                          Part("Strength", 3)>>]
          [] u = 6        -> [config_id |-> 2, parts |-> <<Part("EliteStrike", 10), Part("Intellect", 1),
                                                          Part("Agility", 0)>>]
          [] u = 7        -> [config_id |-> 1, parts |-> <<Part("CritFocus", 8)>>]]

Uuids == DOMAIN ModuleInfoOf

Categories == {"ATTACK", "GUARDIAN", "SUPPORT", "All"}

\* the values the model offers for the argument prioritized_attrs ({} is None)
PrioritySets == {{}, {"Strength", "CritFocus", "EliteStrike"}, {"CritFocus", "Intellect"}}

\* MODULE_CATEGORY_MAP of module_types.py: config_id -> category
MODULE_CATEGORY_MAP == (1 :> "ATTACK") @@ (2 :> "GUARDIAN") @@ (3 :> "SUPPORT")

\* MODULE_CATEGORY_MAP.get(module.config_id, ModuleCategory.ATTACK)
get_module_category(u) ==
    IF ModuleInfoOf[u].config_id \in DOMAIN MODULE_CATEGORY_MAP
    THEN MODULE_CATEGORY_MAP[ModuleInfoOf[u].config_id]
    ELSE "ATTACK"

PartsOf(u) == ModuleInfoOf[u].parts

\* {p.name for m in modules for p in m.parts}
AttrNames(modules) ==
    {PartsOf(modules[i])[j].name : <<i, j>> \in
        {<<i, j>> \in (DOMAIN modules) \X (1..3) : j \in DOMAIN PartsOf(modules[i])}}

\* the values of the parts of module u named a
ModuleAttrValue(u, a) ==
    SumSet([j \in DOMAIN PartsOf(u) |-> IF PartsOf(u)[j].name = a THEN PartsOf(u)[j].value ELSE 0],
           DOMAIN PartsOf(u))

\* sum(p.value for p in m.parts)
TotalValue(u) ==
    SumSet([j \in DOMAIN PartsOf(u) |-> PartsOf(u)[j].value], DOMAIN PartsOf(u))

\* the dict built by
\*   attr_breakdown[part.name] = attr_breakdown.get(part.name, 0) + part.value
AttrBreakdown(modules) ==
    [a \in AttrNames(modules) |->
        SumSet([i \in DOMAIN modules |-> ModuleAttrValue(modules[i], a)], DOMAIN modules)]

EmptyBreakdown == [a \in {} |-> 0]

\* sum of the values of the breakdown bd over the names in S
SumOver(bd, S) == SumSet(bd, DOMAIN bd \cap S)

-----------------------------------------------------------------------------
(* calculate_fitness, ten times the float the code returns *)

ThresholdScore(value) ==
    IF value >= 20 THEN 1000 + (value - 20) * 20
    ELSE IF value >= 16 THEN 500 + (value - 16) * 15
    ELSE IF value >= 12 THEN 100 + (value - 12) * 5
    ELSE 0

TargetAttrs(cat) ==
    CASE cat = "ATTACK" -> ATTACK_ATTRIBUTES
      [] cat = "GUARDIAN" -> GUARDIAN_ATTRIBUTES
      [] cat = "SUPPORT" -> SUPPORT_ATTRIBUTES
      [] OTHER -> {}

\* score += match_count * 100; score -= mismatch_count * 50
PriorityScore(bd, prio) ==
    IF prio # {}
    THEN Cardinality(prio \cap DOMAIN bd) * 100 - Cardinality(DOMAIN bd \ prio) * 50
    ELSE 0

\* threshold_score over the breakdown bd
ThresholdScoreSum(bd) == SumSet([a \in DOMAIN bd |-> ThresholdScore(bd[a])], DOMAIN bd)

\* if physical_sum > 0 and magic_sum > 0: score -= min(physical_sum, magic_sum) * 10
CrossTypePenalty(physical_sum, magic_sum) ==
    IF physical_sum > 0 /\ magic_sum > 0 THEN Min2(physical_sum, magic_sum) * 10 ELSE 0

\* lines 56-84 on the breakdown bd
FitnessOfBreakdown(bd, cat, prio) ==
    Max2(0, 10 * (PriorityScore(bd, prio) + ThresholdScoreSum(bd)
                  + 5 * SumOver(bd, TargetAttrs(cat))
                  - CrossTypePenalty(SumOver(bd, PHYSICAL_ATTRIBUTES),
                                     SumOver(bd, MAGIC_ATTRIBUTES)))
            + SumOver(bd, DOMAIN bd))

calculate_fitness(modules, cat, prio) ==
    IF modules = <<>> \/ Cardinality(Range(modules)) < 4 THEN 0
    ELSE FitnessOfBreakdown(AttrBreakdown(modules), cat, prio)

-----------------------------------------------------------------------------
(* calculate_combat_power *)

\* sum(1 for threshold in ATTR_THRESHOLDS if attr_value >= threshold)
MaxLevel(attr_value) ==
    Cardinality({t \in DOMAIN ATTR_THRESHOLDS : attr_value >= ATTR_THRESHOLDS[t]})

\* power_map.get(max_level, 0) when max_level > 0
LevelPower(attr_name, max_level) ==
    IF max_level > 0
    THEN IF AttrType(attr_name) = "special"
         THEN SPECIAL_ATTR_POWER_MAP[max_level] ELSE BASIC_ATTR_POWER_MAP[max_level]
    ELSE 0

\* lines 253-262 on the breakdown bd
CombatPowerOfBreakdown(bd) ==
    [score |-> SumSet([a \in DOMAIN bd |-> LevelPower(a, MaxLevel(bd[a]))], DOMAIN bd)
               + TotalAttrPower(SumOver(bd, DOMAIN bd)),
     attr_breakdown |-> bd]

\* variant of AddPart: the value of the part replaces the entry
AddPartOverwriting(attr_breakdown, part) ==
    [a \in DOMAIN attr_breakdown \cup {part.name} |->
        IF a = part.name THEN part.value ELSE attr_breakdown[a]]

\* line 251: attr_breakdown[part.name] = attr_breakdown.get(part.name, 0) + part.value
AddPart(attr_breakdown, part) ==
    [a \in DOMAIN attr_breakdown \cup {part.name} |->
        IF a = part.name
        THEN (IF a \in DOMAIN attr_breakdown THEN attr_breakdown[a] ELSE 0) + part.value
        ELSE attr_breakdown[a]]

RECURSIVE AddParts(_, _)
\* line 250: for part in module.parts
AddParts(attr_breakdown, parts) ==
    IF parts = <<>> THEN attr_breakdown
    ELSE AddParts(AddPart(attr_breakdown, Head(parts)), Tail(parts))

RECURSIVE Accumulated(_, _)
\* lines 249-251: for module in modules, in the order of the list
Accumulated(attr_breakdown, modules) ==
    IF modules = <<>> THEN attr_breakdown
    ELSE Accumulated(AddParts(attr_breakdown, PartsOf(Head(modules))), Tail(modules))

calculate_combat_power(modules) == CombatPowerOfBreakdown(Accumulated(EmptyBreakdown, modules))

\* _get_attribute_level_key: the tuple of "<name>(level k)" strings over the
\* sorted items of the breakdown, kept as the map name -> k it spells out
AttrLevel(value) ==
    IF value >= 20 THEN 6
    ELSE IF value >= 16 THEN 5
    ELSE IF value >= 12 THEN 4
    ELSE IF value >= 8 THEN 3
    ELSE IF value >= 4 THEN 2
    ELSE IF value >= 1 THEN 1
    ELSE 0

get_attribute_level_key(attr_breakdown) ==
    [a \in DOMAIN attr_breakdown |-> AttrLevel(attr_breakdown[a])]

-----------------------------------------------------------------------------
(* ModuleSolution *)

\* ModuleSolution(modules=...): __post_init__ sorts the list by uuid; the
\* other fields take their defaults
ModuleSolution(modules) ==
    [modules |-> SortByUuid(modules), attr_breakdown |-> EmptyBreakdown,
     score |-> 0, optimization_score |-> 0]

get_combination_id(sol) == sol.modules

-----------------------------------------------------------------------------
(* run_single_ga_campaign: the helpers.  ctx carries the arguments of the  *)
(* campaign: [pool, category, prio].                                       *)

Ctx(pool, cat, prio) == [pool |-> pool, category |-> cat, prio |-> prio]

\* calculate_fitness on every list of four modules, evaluated once (@@
\* makes TLC keep a function as a table of values)
FitnessRow(cat, prio, a, b, c) ==
    [d \in Uuids |-> calculate_fitness(<<a, b, c, d>>, cat, prio)] @@ <<>>

FitnessPlane(cat, prio, a) ==
    [b \in Uuids |-> [c \in Uuids |-> FitnessRow(cat, prio, a, b, c)] @@ <<>>] @@ <<>>

FitnessTable ==
    [cat \in Categories |->
        [prio \in PrioritySets |->
            [a \in Uuids |-> FitnessPlane(cat, prio, a)] @@ <<>>] @@ <<>>] @@ <<>>

Fitness(modules, ctx) ==
    IF Len(modules) = 4 /\ ctx.prio \in PrioritySets
    THEN FitnessTable[ctx.category][ctx.prio][modules[1]][modules[2]][modules[3]][modules[4]]
    ELSE calculate_fitness(modules, ctx.category, ctx.prio)

\* math.comb(n, 4)
Comb4(n) == IF n < 4 THEN 0 ELSE (n * (n - 1) * (n - 2) * (n - 3)) \div 24

\* a freshly sampled and scored member of the population
Scored(modules, ctx) ==
    [ModuleSolution(modules) EXCEPT !.optimization_score = Fitness(SortByUuid(modules), ctx)]

\* the lists of n pairwise different elements of the set S
RECURSIVE DistinctSeqs(_, _)
DistinctSeqs(S, n) ==
    IF n = 0 THEN {<<>>}
    ELSE UNION {{<<x>> \o p : p \in DistinctSeqs(S \ {x}, n - 1)} : x \in S}

\* the sorted 4-lists of pairwise different modules of the pool: the
\* combination ids random.sample(pool, 4) can produce
Combinations(pool) ==
    {SortByUuid(q) : q \in {<<pool[a], pool[b], pool[c], pool[d]>> :
        <<a, b, c, d>> \in {t \in (DOMAIN pool) \X (DOMAIN pool) \X (DOMAIN pool) \X (DOMAIN pool) :
                              t[1] < t[2] /\ t[2] < t[3] /\ t[3] < t[4]}}}

\* variant of InitialPopulations: the check of combo_id against seen is left
\* out
InitialPopulationsUnseen(ctx, size) ==
    IF Len(ctx.pool) < 4 THEN {<<>>}
    ELSE LET target_size == Min2(size, Comb4(Len(ctx.pool)))
         IN IF target_size = 0 THEN {<<>>}
            ELSE {[i \in 1..target_size |-> Scored(ids[i], ctx)] :
                    ids \in [1..target_size -> Combinations(ctx.pool)]}

\* _initialize_population: the populations the sampling loop can end with
InitialPopulations(ctx, size) ==
    IF Len(ctx.pool) < 4 THEN {<<>>}
    ELSE LET target_size == Min2(size, Comb4(Len(ctx.pool)))
         IN IF target_size = 0 THEN {<<>>}
            ELSE {[i \in 1..target_size |-> Scored(ids[i], ctx)] :
                    ids \in DistinctSeqs(Combinations(ctx.pool), target_size)}

\* _selection: random.sample(population, tournament_size) raises ValueError
\* when the population is smaller than the tournament
SelectionRaises(population) == Len(population) < tournament_size

\* _selection: the members that can win a tournament (max returns the first
\* of the highest-scored members of the sample, in the sample's random order)
SelectionWinners(population) ==
    {population[i] : i \in
        {i \in DOMAIN population :
            Cardinality({j \in DOMAIN population :
                j # i /\ population[j].optimization_score <= population[i].optimization_score})
            >= tournament_size - 1}}

\* p1.modules[:2] + [m for m in p2.modules if m.uuid not in {p1.modules[:2]}][:2]
ChildModules(p1, p2) ==
    LET head == Take(p1.modules, 2)
    IN head \o Take(SelectSeq(p2.modules, LAMBDA m : m \notin Range(head)), 2)

\* _crossover's first child; crossed = FALSE is random.random() > crossover_rate
CrossoverChild(p1, p2, crossed) ==
    IF ~crossed THEN p1
    ELSE LET child_mods == ChildModules(p1, p2)
         IN IF Len(child_mods) = 4 THEN ModuleSolution(child_mods) ELSE p1

\* variant of MutationCandidates: the filter on current_ids is left out
MutationCandidatesAnyModule(solution, ctx) == ctx.pool

\* candidates = [m for m in pool if m.uuid not in current_ids]
MutationCandidates(solution, ctx) ==
    SelectSeq(ctx.pool, LAMBDA m : m \notin Range(solution.modules))

\* _mutate with index_to_replace = index and random.choice picking the
\* candidate at position pick
Mutated(solution, ctx, index, pick) ==
    [solution EXCEPT !.modules =
        SortByUuid([solution.modules EXCEPT ![index] = MutationCandidates(solution, ctx)[pick]])]

\* the solutions _mutate can leave in place of solution
MutateOutcomes(solution, ctx) ==
    {solution} \cup
    {Mutated(solution, ctx, index, pick) :
        <<index, pick>> \in (DOMAIN solution.modules) \X (DOMAIN MutationCandidates(solution, ctx))}

\* the pool positions the inner loop of _local_search does not skip for
\* slot i: those whose module is in no other slot
Tried(modules, i, pool) ==
    {k \in DOMAIN pool : pool[k] \notin {modules[j] : j \in {j \in DOMAIN modules : modules[j] # modules[i]}}}

\* new_score for every tried position
NewScores(modules, i, ctx) ==
    [k \in Tried(modules, i, ctx.pool) |-> Fitness([modules EXCEPT ![i] = ctx.pool[k]], ctx)]

\* the position the loop ends with: the first, in pool order, of those
\* with the highest new_score; only asked when some score is above cur
BestPosition(new_score, cur) ==
    CHOOSE k \in DOMAIN new_score :
        /\ new_score[k] > cur
        /\ \A l \in DOMAIN new_score :
              new_score[l] < new_score[k] \/ (new_score[l] = new_score[k] /\ k <= l)

\* variant of BestOf: a replacement is taken when new_score >= best_new_score
BestOfNotStrict(pool, new_score, cur) ==
    LET best == CHOOSE k \in DOMAIN new_score :
                    \A l \in DOMAIN new_score :
                        new_score[l] < new_score[k] \/ (new_score[l] = new_score[k] /\ l <= k)
    IN IF new_score[best] < cur THEN [score |-> cur, replacement |-> 0]
       ELSE [score |-> new_score[best], replacement |-> pool[best]]

\* [score |-> best_new_score, replacement |-> best_replacement, 0 for None]
BestOf(pool, new_score, cur) ==
    IF \A k \in DOMAIN new_score : new_score[k] <= cur
    THEN [score |-> cur, replacement |-> 0]
    ELSE [score |-> new_score[BestPosition(new_score, cur)],
          replacement |-> pool[BestPosition(new_score, cur)]]

\* lines 148-157: the inner loop of _local_search for slot i
ScanPool(modules, i, ctx, optimization_score) ==
    BestOf(ctx.pool, NewScores(modules, i, ctx), optimization_score)

\* lines 158-162: adopt the replacement found for slot i, if any
Adopt(cur, i, best) ==
    IF best.replacement # 0
    THEN [modules |-> SortByUuid([cur.modules EXCEPT ![i] = best.replacement]),
          optimization_score |-> best.score, improved |-> TRUE]
    ELSE cur

\* lines 148-162 for slot i; cur is [modules, optimization_score, improved]
LocalSearchSlot(cur, i, ctx) ==
    Adopt(cur, i, ScanPool(cur.modules, i, ctx, cur.optimization_score))

RECURSIVE LocalSearchPass(_, _, _)
\* one pass of _local_search over the slots i..
LocalSearchPass(cur, i, ctx) ==
    IF i > Len(cur.modules) THEN cur
    ELSE LocalSearchPass(LocalSearchSlot(cur, i, ctx), i + 1, ctx)

\* variant of LocalSearchLoop: the search ends after its first pass
LocalSearchLoopOnePass(cur, ctx) == LocalSearchPass([cur EXCEPT !.improved = FALSE], 1, ctx)

RECURSIVE LocalSearchLoop(_, _)
\* the while True loop of _local_search; cur is [modules,
\* optimization_score, improved]
LocalSearchLoop(cur, ctx) ==
    IF cur.improved
    THEN LocalSearchLoop(LocalSearchPass([cur EXCEPT !.improved = FALSE], 1, ctx), ctx)
    ELSE cur

\* the solution with the modules and the score the search ended with
WithFound(solution, found) ==
    [solution EXCEPT !.modules = found.modules,
                     !.optimization_score = found.optimization_score]

\* _local_search(solution, pool)
local_search(solution, ctx) ==
    WithFound(solution,
        LocalSearchLoop([modules |-> solution.modules,
                         optimization_score |-> solution.optimization_score,
                         improved |-> TRUE], ctx))

\* variant of Rescored: the individual keeps the score it was bred with
RescoredStale(individual, ctx) == individual

\* individual.optimization_score = calculate_fitness(individual.modules, ...)
Rescored(individual, ctx) ==
    [individual EXCEPT !.optimization_score = Fitness(individual.modules, ctx)]

OptScores(solutions) == [i \in DOMAIN solutions |-> solutions[i].optimization_score]

\* sort(key=lambda s: s.optimization_score, reverse=True)
SortByOptimizationScore(solutions) == SortDescBy(solutions, OptScores(solutions))

\* lines 177-182: rescore every individual, sort, local search on the first
\* local_search_count of them
SearchedFirst(sorted, ctx) ==
    [i \in DOMAIN sorted |->
        IF i <= local_search_count THEN local_search(sorted[i], ctx) ELSE sorted[i]]

FinishGeneration(next_gen, ctx) ==
    SearchedFirst(SortByOptimizationScore([i \in DOMAIN next_gen |-> Rescored(next_gen[i], ctx)]),
                  ctx)

-----------------------------------------------------------------------------
(* optimize_modules: the helpers *)

\* [m for m in modules if self.get_module_category(m) == category]
CategoryFiltered(modules, cat) ==
    IF cat = "All" THEN modules
    ELSE SelectSeq(modules, LAMBDA m : get_module_category(m) = cat)

\* variant of StrictFiltered: the strict filter is left out
StrictFilteredOff(pool, prio) == pool

\* [m for m in module_pool if all(p.name in prioritized_set for p in m.parts)]
StrictFiltered(pool, prio) ==
    IF prio # {}
    THEN SelectSeq(pool, LAMBDA m : \A j \in DOMAIN PartsOf(m) : PartsOf(m)[j].name \in prio)
    ELSE pool

\* _preliminary_check
preliminary_check(pool, prio) ==
    IF prio = {} THEN TRUE
    ELSE Cardinality(AttrNames(pool) \cap prio) >= 2

\* variant of TopBy: the n last of the sorted list are kept
TopByLowest(list, key, n) ==
    LET sorted == SortDescBy(list, [i \in DOMAIN list |-> key[list[i]]])
    IN Range(SubSeq(sorted, Max2(1, Len(sorted) - n + 1), Len(sorted)))

\* sorted(..., reverse=True)[:n] of the modules in list, by the key function
TopBy(list, key, n) ==
    Range(Take(SortDescBy(list, [i \in DOMAIN list |-> key[list[i]]]), n))

RECURSIVE AttrEntries(_, _)
\* lines 231-232: attr_modules[a], one (module, part.value) entry for every
\* part named a, in the order of the modules and of their parts
AttrEntries(modules, a) ==
    IF modules = <<>> THEN <<>>
    ELSE LET named == SelectSeq(PartsOf(Head(modules)), LAMBDA part : part.name = a)
         IN [j \in DOMAIN named |-> [module |-> Head(modules), value |-> named[j].value]]
            \o AttrEntries(Tail(modules), a)

\* lines 234-235: the modules of the first n entries of attr_modules[a]
\* sorted by value, descending
TopByAttr(modules, a, n) ==
    LET module_values == AttrEntries(modules, a)
        sorted_by_attr == SortDescBy(module_values,
                                     [i \in DOMAIN module_values |-> module_values[i].value])
    IN {sorted_by_attr[i].module : i \in DOMAIN Take(sorted_by_attr, n)}

\* prefilter_modules on an optimizer whose prefilter_top_n_per_attr and
\* prefilter_top_n_total_value are the given numbers: the set
\* candidate_modules
PrefilterSetWith(modules, top_n_per_attr, top_n_total_value) ==
    IF modules = <<>> THEN {}
    ELSE UNION {TopByAttr(modules, a, top_n_per_attr) : a \in AttrNames(modules)}
         \cup TopBy(modules, [u \in Uuids |-> TotalValue(u)], top_n_total_value)

\* prefilter_modules: the set candidate_modules
PrefilterSet(modules) ==
    PrefilterSetWith(modules, prefilter_top_n_per_attr, prefilter_top_n_total_value)

\* the uuids of the set S in ascending order
Ascending(S) ==
    [i \in 1..Cardinality(S) |-> CHOOSE x \in S : Cardinality({y \in S : y < x}) = i - 1]

Reverse(s) == [i \in DOMAIN s |-> s[Len(s) + 1 - i]]

\* list(candidate_modules): a set is listed in an order the code does not
\* control; the model draws it from the ascending and the descending order
ListingsOf(S) == {Ascending(S), Reverse(Ascending(S))}

\* list({sol.get_combination_id(): sol for sol in solutions}.values()): one
\* entry per combination id, at the place of its first occurrence, holding
\* its last occurrence
UniqueByCombination(solutions) ==
    LET first == {i \in DOMAIN solutions :
                    \A j \in 1..(i - 1) : get_combination_id(solutions[j]) # get_combination_id(solutions[i])}
        last(i) == CHOOSE j \in DOMAIN solutions :
                    /\ get_combination_id(solutions[j]) = get_combination_id(solutions[i])
                    /\ \A l \in (j + 1)..Len(solutions) :
                          get_combination_id(solutions[l]) # get_combination_id(solutions[i])
        n == Cardinality(first)
        nth(p) == CHOOSE i \in first : Cardinality({j \in first : j < i}) = p - 1
    IN [p \in 1..n |-> solutions[last(nth(p))]]

\* the swaps <<slot, pool position>> that _local_search_improvement would
\* adopt when it meets them
ImprovingSwaps(modules, optimization_score, ctx) ==
    {s \in (DOMAIN modules) \X (DOMAIN ctx.pool) :
        /\ ctx.pool[s[2]] \notin Range(modules)
        /\ Fitness([modules EXCEPT ![s[1]] = ctx.pool[s[2]]], ctx) > optimization_score}

\* the swap the loops meet first: slots in order, then the pool in order
FirstSwap(improving) ==
    CHOOSE s \in improving :
        \A t \in improving : s[1] < t[1] \/ (s[1] = t[1] /\ s[2] <= t[2])

\* lines 386-388: the solution after the swap
Swapped(temp_modules, ctx) ==
    [modules |-> SortByUuid(temp_modules), optimization_score |-> Fitness(temp_modules, ctx)]

RECURSIVE ImprovementLoop(_, _)
\* the while True loop of _local_search_improvement; cur is [modules,
\* optimization_score]
ImprovementLoop(cur, ctx) ==
    IF ImprovingSwaps(cur.modules, cur.optimization_score, ctx) = {} THEN cur
    ELSE ImprovementLoop(
            Swapped([cur.modules EXCEPT
                        ![FirstSwap(ImprovingSwaps(cur.modules, cur.optimization_score, ctx))[1]] =
                            ctx.pool[FirstSwap(ImprovingSwaps(cur.modules, cur.optimization_score, ctx))[2]]],
                    ctx),
            ctx)

\* the swap of lines 383-388 met first in a turn of the while loop:
\* [modules (before the swap), slot, replacement, new_score]
AdoptedSwap(modules, first, ctx) ==
    [modules |-> modules, slot |-> first[1], replacement |-> ctx.pool[first[2]],
     new_score |-> Fitness([modules EXCEPT ![first[1]] = ctx.pool[first[2]]], ctx)]

RECURSIVE ImprovementSwaps(_, _)
\* the swaps the while True loop of _local_search_improvement adopts, in
\* order; cur is [modules, optimization_score]
ImprovementSwaps(cur, ctx) ==
    IF ImprovingSwaps(cur.modules, cur.optimization_score, ctx) = {} THEN <<>>
    ELSE <<AdoptedSwap(cur.modules,
                       FirstSwap(ImprovingSwaps(cur.modules, cur.optimization_score, ctx)), ctx)>>
         \o ImprovementSwaps(
                Swapped([cur.modules EXCEPT
                            ![FirstSwap(ImprovingSwaps(cur.modules, cur.optimization_score, ctx))[1]] =
                                ctx.pool[FirstSwap(ImprovingSwaps(cur.modules, cur.optimization_score, ctx))[2]]],
                        ctx),
                ctx)

\* _local_search_improvement(solution, module_pool, category, prioritized_attrs)
local_search_improvement(solution, ctx) ==
    WithFound(solution,
        ImprovementLoop([modules |-> solution.modules,
                         optimization_score |-> Fitness(solution.modules, ctx)], ctx))

\* lines 342-352
RefinedSolutions(unique_solutions, low, ctx) ==
    IF low = <<>> THEN unique_solutions
    ELSE LET solutions_to_refine == Take(unique_solutions, RefineLimit)
         IN [i \in DOMAIN solutions_to_refine |->
                local_search_improvement(solutions_to_refine[i], ctx)]

\* lines 355-357
WithCombatPower(solution) ==
    IF solution.attr_breakdown = EmptyBreakdown
    THEN LET cp == calculate_combat_power(solution.modules)
         IN [solution EXCEPT !.score = cp.score, !.attr_breakdown = cp.attr_breakdown]
    ELSE solution

\* variant of DedupByAttrLevel: the first solution of every combination id
DedupByCombinationId(solutions) ==
    LET first == {i \in DOMAIN solutions :
                    \A j \in 1..(i - 1) : get_combination_id(solutions[j]) # get_combination_id(solutions[i])}
        n == Cardinality(first)
        nth(p) == CHOOSE i \in first : Cardinality({j \in first : j < i}) = p - 1
    IN [p \in 1..n |-> solutions[nth(p)]]

\* variant of DedupByAttrLevel: every solution is kept
DedupSkipped(solutions) == solutions

\* variant of DedupByAttrLevel: one pass drops only the first solution that
\* repeats an earlier attribute-level key
DedupFirstRepeatOnly(solutions) ==
    LET key(i) == get_attribute_level_key(solutions[i].attr_breakdown)
        repeats == {i \in DOMAIN solutions : \E j \in 1..(i - 1) : key(j) = key(i)}
        dropped == CHOOSE i \in repeats : \A j \in repeats : i <= j
    IN IF repeats = {} THEN solutions
       ELSE SubSeq(solutions, 1, dropped - 1) \o SubSeq(solutions, dropped + 1, Len(solutions))

\* lines 361-367: the first solution of every attribute-level key, in order
DedupByAttrLevel(solutions) ==
    LET key(i) == get_attribute_level_key(solutions[i].attr_breakdown)
        first == {i \in DOMAIN solutions : \A j \in 1..(i - 1) : key(j) # key(i)}
        n == Cardinality(first)
        nth(p) == CHOOSE i \in first : Cardinality({j \in first : j < i}) = p - 1
    IN [p \in 1..n |-> solutions[nth(p)]]

Scores(solutions) == [i \in DOMAIN solutions |-> solutions[i].score]

\* variant of SortByScore: the list is sorted by optimization_score
SortByScoreOnFitness(solutions) == SortByOptimizationScore(solutions)

\* deduplicated_solutions.sort(key=lambda s: s.score, reverse=True)
SortByScore(solutions) == SortDescBy(solutions, Scores(solutions))

\* lines 339-359: from all_best_solutions to final_results, sorted by
\* optimization_score
FinalResults(all_best, candidates, low, cat, prio) ==
    LET unique_solutions == SortByOptimizationScore(UniqueByCombination(all_best))
        refined_solutions == RefinedSolutions(unique_solutions, low, Ctx(candidates, cat, prio))
        both == unique_solutions \o refined_solutions
    IN SortByOptimizationScore([i \in DOMAIN both |-> WithCombatPower(both[i])])

\* lines 339-368: from all_best_solutions to deduplicated_solutions
FinalSolutions(all_best, candidates, low, cat, prio) ==
    SortByScore(DedupByAttrLevel(FinalResults(all_best, candidates, low, cat, prio)))

-----------------------------------------------------------------------------
(* The inputs the model offers to optimize_modules *)

ModuleLists == {<<>>, <<1, 2, 3>>, <<1, 2, 3, 4>>, <<1, 3, 5, 6>>, <<1, 2, 3, 4, 5, 6>>}

\* a submitted campaign that has not started
Pending ==
    [st |-> "pending", population |-> <<>>, next_gen |-> <<>>, generation |-> 0, error |-> "none"]

\* a campaign whose future holds the exception error
Failed(error) ==
    [st |-> "failed", population |-> <<>>, next_gen |-> <<>>, generation |-> 0, error |-> error]

\* a campaign whose future holds the returned list
Returned(population) ==
    [st |-> "done", population |-> population, next_gen |-> <<>>, generation |-> 0,
     error |-> "none"]

Workers == DOMAIN futures

WorkerCtx == Ctx(high_quality_modules, category, prioritized_attrs)

\* The campaigns run in separate processes and share no state, so a run in
\* which their steps interleave ends as the run in which each campaign runs
\* alone, in the order of their completion: the model runs one campaign at
\* a time, in any order.
Running(w) == futures[w].st \in {"generation", "breed"}

MayRun(w) == pc = "campaigns" /\ \A v \in Workers \ {w} : ~Running(v)

-----------------------------------------------------------------------------
(* State machine *)

\* no scorer was called directly
NoCall == [fn |-> "none"]

\* no local search is running
NoFrame == [fn |-> "none"]

\* the state after ModuleOptimizer() on a machine that gives n campaigns
InitWith(n) ==
    /\ num_campaigns = n
    /\ pc = "idle"
    /\ arg_modules = <<>>
    /\ category = "All"
    /\ prioritized_attrs = {}
    /\ module_pool = <<>>
    /\ candidate_modules = <<>>
    /\ high_quality_modules = <<>>
    /\ low_quality_modules = <<>>
    /\ futures = <<>>
    /\ consumed = {}
    /\ all_best_solutions = <<>>
    /\ progress = <<>>
    /\ result = <<>>
    /\ call = NoCall
    /\ returned = 0
    /\ frame = NoFrame

Init == InitWith(NumCampaigns)

\* variant of HighQuality: the quality threshold is not applied
HighQualityUnfiltered(listing) == listing

\* line 312
HighQuality(listing) == SelectSeq(listing, LAMBDA m : TotalValue(m) >= quality_threshold)

\* line 313
LowQuality(listing) == SelectSeq(listing, LAMBDA m : TotalValue(m) < quality_threshold)

\* variant of TooFew: the limit is one too low
TooFewBelowThree(candidates) == Len(candidates) < 3

\* line 309: len(candidate_modules) < 4
TooFew(candidates) == Len(candidates) < 4

\* optimize_modules, lines 296-325, on the pool the filters left: feasibility
\* checks, prefilter, quality split (lines 312-318) and the submission of
\* the campaigns; listing is list(candidate_modules)
StartWith(cat, prio, pool, listing) ==
    /\ pc = "idle"
    /\ listing \in ListingsOf(PrefilterSet(pool))
    /\ category' = cat
    /\ prioritized_attrs' = prio
    /\ module_pool' = pool
    /\ IF ~preliminary_check(pool, prio)
       THEN /\ pc' = "done"
            /\ UNCHANGED <<candidate_modules, high_quality_modules,
                           low_quality_modules, progress, futures>>
       ELSE /\ candidate_modules' = listing
            /\ IF TooFew(listing)
               THEN /\ pc' = "done"
                    /\ UNCHANGED <<high_quality_modules, low_quality_modules,
                                   progress, futures>>
               ELSE /\ pc' = "campaigns"
                    /\ high_quality_modules' =
                          IF Len(HighQuality(listing)) < 4 THEN listing ELSE HighQuality(listing)
                    /\ low_quality_modules' =
                          IF Len(HighQuality(listing)) < 4 THEN <<>> ELSE LowQuality(listing)
                    /\ progress' = <<<<"running", num_campaigns>>>>
                    /\ futures' = [w \in 1..num_campaigns |-> Pending]
    /\ UNCHANGED <<num_campaigns, consumed, all_best_solutions, result>>
    /\ UNCHANGED scorer

\* optimize_modules(modules, category, top_n, prioritized_attrs) up to the
\* submission of the campaigns: lines 297-304 filter the pool
Start(modules, cat, prio, listing) ==
    /\ arg_modules' = modules
    /\ StartWith(cat, prio, StrictFiltered(CategoryFiltered(modules, cat), prio), listing)

\* run_single_ga_campaign, lines 166-167: _initialize_population, and the
\* return of an empty population
InitializePopulation(w) ==
    /\ MayRun(w)
    /\ futures[w].st = "pending"
    /\ \E population \in InitialPopulations(WorkerCtx, population_size) :
          futures' = [futures EXCEPT ![w] =
              IF population = <<>> THEN Returned(<<>>)
              ELSE IF generations = 0
                   THEN Returned(SortByOptimizationScore(population))
                   ELSE [st |-> "generation", population |-> population,
                         next_gen |-> <<>>, generation |-> 0, error |-> "none"]]
    /\ UNCHANGED <<pc, setup, consumed, all_best_solutions, progress, result>>
    /\ UNCHANGED scorer

\* variant of Bred: no elite is copied into the next generation
BredWithoutElites(worker, sorted) ==
    [worker EXCEPT !.st = "breed", !.population = sorted, !.next_gen = <<>>]

\* the campaign at line 172, the population sorted and the elites copied
Bred(worker, sorted) ==
    [worker EXCEPT !.st = "breed", !.population = sorted,
                   !.next_gen = Take(sorted, elite_count)]

\* lines 169-171: sort the population and copy the elites
BeginGeneration(w) ==
    /\ MayRun(w)
    /\ futures[w].st = "generation"
    /\ futures' = [futures EXCEPT ![w] =
                      Bred(futures[w], SortByOptimizationScore(futures[w].population))]
    /\ UNCHANGED <<pc, setup, consumed, all_best_solutions, progress, result>>
    /\ UNCHANGED scorer

\* the campaign after a turn of the while loop of line 172 left next_gen:
\* the loop goes on while next_gen is short of population_size; otherwise
\* lines 177-184 follow: rescoring, sort, local search, population =
\* next_gen, and after the last generation the return of the sorted
\* population
AfterTurn(worker, next_gen, ctx) ==
    IF Len(next_gen) < population_size
    THEN [worker EXCEPT !.next_gen = next_gen]
    ELSE IF worker.generation + 1 >= generations
         THEN Returned(SortByOptimizationScore(FinishGeneration(next_gen, ctx)))
         ELSE [st |-> "generation", population |-> FinishGeneration(next_gen, ctx),
               next_gen |-> <<>>, generation |-> worker.generation + 1, error |-> "none"]

\* lines 173-175: the pairs of children two tournaments, _crossover and two
\* _mutate calls can produce
Children(population, ctx) ==
    UNION {MutateOutcomes(CrossoverChild(t[1], t[2], t[3]), ctx)
             \X MutateOutcomes(CrossoverChild(t[2], t[1], t[3]), ctx) :
           t \in SelectionWinners(population) \X SelectionWinners(population) \X BOOLEAN}

\* lines 172-176, one turn of the while loop: two tournaments, _crossover,
\* two _mutate calls, next_gen.extend([c1, c2]); and the rest of the
\* generation once the loop ends
Breed(w) ==
    /\ MayRun(w)
    /\ futures[w].st = "breed"
    /\ ~SelectionRaises(futures[w].population)
    /\ \E c \in Children(futures[w].population, WorkerCtx) :
          futures' = [futures EXCEPT ![w] =
              AfterTurn(futures[w], futures[w].next_gen \o <<c[1], c[2]>>, WorkerCtx)]
    /\ UNCHANGED <<pc, setup, consumed, all_best_solutions, progress, result>>
    /\ UNCHANGED scorer

\* line 173 when random.sample raises ValueError: the campaign ends with
\* the exception
SelectionFails(w) ==
    /\ MayRun(w)
    /\ futures[w].st = "breed"
    /\ SelectionRaises(futures[w].population)
    /\ futures' = [futures EXCEPT ![w] = Failed("ValueError")]
    /\ UNCHANGED <<pc, setup, consumed, all_best_solutions, progress, result>>
    /\ UNCHANGED scorer

\* a campaign process ends with an exception of its environment (for
\* instance MemoryError): future.result() will raise it
WorkerFault(w) ==
    /\ pc = "campaigns"
    /\ Running(w)
    /\ futures' = [futures EXCEPT ![w] = Failed("MemoryError")]
    /\ UNCHANGED <<pc, setup, consumed, all_best_solutions, progress, result>>
    /\ UNCHANGED scorer

\* variant of Merged: a future that raises empties the merged list
MergedResetOnFailure(all_best, future) ==
    IF future.st = "done" THEN all_best \o future.population ELSE <<>>

\* lines 328-335: what the loop body adds to all_best_solutions for a
\* future; a future that raises adds nothing
Merged(all_best, future) ==
    IF future.st = "done" THEN all_best \o future.population ELSE all_best

\* lines 326-335, one turn of the loop over as_completed(futures)
Collect(w) ==
    /\ pc = "campaigns"
    /\ w \in Workers \ consumed
    /\ futures[w].st \in {"done", "failed"}
    /\ consumed' = consumed \cup {w}
    /\ all_best_solutions' = Merged(all_best_solutions, futures[w])
    /\ progress' =
          IF futures[w].st = "done" /\ futures[w].population # <<>>
          THEN Append(progress, <<"task", Cardinality(consumed) + 1,
                                  futures[w].population[1].optimization_score>>)
          ELSE progress
    /\ UNCHANGED <<pc, setup, futures, result>>
    /\ UNCHANGED scorer

\* variant of BeginRefinement: the executor block is left without waiting
\* for the futures
BeginRefinementEarly ==
    /\ pc = "campaigns"
    /\ pc' = "refine"
    /\ progress' = Append(progress, <<"refine">>)
    /\ UNCHANGED <<setup, futures, consumed, all_best_solutions, result>>
    /\ UNCHANGED scorer

\* lines 337-338: the executor block is left once every future was yielded
BeginRefinement ==
    /\ pc = "campaigns"
    /\ consumed = Workers
    /\ pc' = "refine"
    /\ progress' = Append(progress, <<"refine">>)
    /\ UNCHANGED <<setup, futures, consumed, all_best_solutions, result>>
    /\ UNCHANGED scorer

\* lines 370-373
Return(deduplicated_solutions, top_n) ==
    /\ result' = Take(deduplicated_solutions, top_n)
    /\ progress' = Append(progress, <<"finished", Len(deduplicated_solutions)>>)

\* lines 339-373: merge, refinement, combat power, deduplication, ranking
Finish(top_n) ==
    /\ pc = "refine"
    /\ Return(FinalSolutions(all_best_solutions, candidate_modules, low_quality_modules,
                             category, prioritized_attrs), top_n)
    /\ pc' = "done"
    /\ UNCHANGED <<setup, futures, consumed, all_best_solutions>>
    /\ UNCHANGED scorer

\* the steps of the campaigns and of the rest of optimize_modules
Run ==
    \/ \E w \in Workers : InitializePopulation(w)
    \/ \E w \in Workers : BeginGeneration(w)
    \/ \E w \in Workers : Breed(w)
    \/ \E w \in Workers : SelectionFails(w)
    \/ \E w \in Workers : WorkerFault(w)
    \/ \E w \in Workers : Collect(w)
    \/ BeginRefinement
    \/ \E top_n \in 1..MaxTopN : Finish(top_n)

\* an optimize_modules call on any of the offered inputs, and its steps
Next ==
    \/ /\ pc = "idle"
       /\ \E modules \in ModuleLists, cat \in Categories, prio \in PrioritySets :
            \E listing \in ListingsOf(PrefilterSet(StrictFiltered(CategoryFiltered(modules, cat), prio))) :
              Start(modules, cat, prio, listing)
    \/ Run

Spec == Init /\ [][Next]_vars

-----------------------------------------------------------------------------
(* optimize_modules on a machine that gives MoreCampaigns campaigns *)

\* the pools offered to the call with several campaigns
CampaignLists == {<<1, 2, 3, 4>>, <<1, 2, 3, 4, 5, 6>>}

InitCampaigns == InitWith(MoreCampaigns)

NextCampaigns ==
    \/ /\ pc = "idle"
       /\ \E modules \in CampaignLists :
            Start(modules, "All", {}, Ascending(PrefilterSet(modules)))
    \/ Run

SpecCampaigns == InitCampaigns /\ [][NextCampaigns]_vars

-----------------------------------------------------------------------------
(* run_single_ga_campaign called on its own *)

\* the pools offered to the campaign: every set of the high-quality
\* modules, the sets of fewer than 4 modules included
WorkerPools == {Ascending(S) : S \in SUBSET {u \in Uuids : TotalValue(u) >= quality_threshold}}

\* run_single_ga_campaign(modules, category, prioritized_attrs, ga_params)
\* is called: the arguments are held where optimize_modules holds the ones
\* it submits
SubmitCampaign(modules, cat, prio) ==
    /\ pc = "idle"
    /\ pc' = "campaigns"
    /\ high_quality_modules' = modules
    /\ category' = cat
    /\ prioritized_attrs' = prio
    /\ futures' = <<Pending>>
    /\ UNCHANGED <<num_campaigns, arg_modules, module_pool, candidate_modules,
                   low_quality_modules, consumed, all_best_solutions, progress, result>>
    /\ UNCHANGED scorer

NextWorkers ==
    \/ \E modules \in WorkerPools : SubmitCampaign(modules, "All", {})
    \/ \E w \in Workers : InitializePopulation(w)
    \/ \E w \in Workers : BeginGeneration(w)
    \/ \E w \in Workers : Breed(w)
    \/ \E w \in Workers : SelectionFails(w)

SpecWorkers == Init /\ [][NextWorkers]_vars

\* run_single_ga_campaign called on the pools of the optimizer's callers,
\* the low-quality modules included: with 6 modules the swaps of
\* _local_search can end at a solution that is not the best of the pool
NextGenerations ==
    \/ \E modules \in ModuleLists : SubmitCampaign(modules, "All", {})
    \/ \E w \in Workers : InitializePopulation(w)
    \/ \E w \in Workers : BeginGeneration(w)
    \/ \E w \in Workers : Breed(w)
    \/ \E w \in Workers : SelectionFails(w)

SpecGenerations == Init /\ [][NextGenerations]_vars

-----------------------------------------------------------------------------
(* Direct calls of the scorers *)

\* the module lists offered to a direct call: every combination of four
\* modules, the empty list, a list of three and a list that repeats a module
ScorerInputs == Combinations(Ascending(Uuids)) \cup {<<>>, <<1, 2, 3>>, <<1, 1, 2, 3>>}

\* calculate_fitness(modules, category, prioritized_attrs)
CallFitness(modules, cat, prio) ==
    /\ call' = [fn |-> "calculate_fitness", modules |-> modules, category |-> cat,
                prioritized_attrs |-> prio]
    /\ returned' = calculate_fitness(modules, cat, prio)
    /\ UNCHANGED <<optimizer, frame>>

\* the module lists offered to a direct call of calculate_combat_power:
\* every combination of four modules in every order
CombatPowerInputs == UNION {DistinctSeqs(Range(c), 4) : c \in Combinations(Ascending(Uuids))}

\* self.calculate_combat_power(modules)
CallCombatPower(modules) ==
    /\ call' = [fn |-> "calculate_combat_power", modules |-> modules]
    /\ returned' = calculate_combat_power(modules)
    /\ UNCHANGED <<optimizer, frame>>

\* the module lists offered to a direct call of prefilter_modules: every
\* set of modules, in ascending and in descending uuid order
PrefilterInputs == UNION {ListingsOf(S) : S \in SUBSET Uuids}

\* the values of (prefilter_top_n_per_attr, prefilter_top_n_total_value)
\* the optimizer of a direct call is given: the reference ones and a scaled
\* pair that is below the size of the pools
PrefilterLimits ==
    {<<prefilter_top_n_per_attr, prefilter_top_n_total_value>>,
     <<ScaledTopNPerAttr, ScaledTopNTotalValue>>}

\* self.prefilter_modules(modules), returning list(candidate_modules)
CallPrefilter(modules, limits, listing) ==
    /\ listing \in ListingsOf(PrefilterSetWith(modules, limits[1], limits[2]))
    /\ call' = [fn |-> "prefilter_modules", modules |-> modules,
                top_n_per_attr |-> limits[1], top_n_total_value |-> limits[2]]
    /\ returned' = listing
    /\ UNCHANGED <<optimizer, frame>>

\* prefilter_modules keeps no state between calls: a behaviour is one call
NextPrefilters ==
    /\ call = NoCall
    /\ \E modules \in PrefilterInputs, limits \in PrefilterLimits :
          \E listing \in ListingsOf(PrefilterSetWith(modules, limits[1], limits[2])) :
              CallPrefilter(modules, limits, listing)

SpecPrefilters == Init /\ [][NextPrefilters]_vars

\* the solutions offered to a direct call of _local_search_improvement:
\* every combination of four modules
RefinerInputs == {ModuleSolution(c) : c \in Combinations(Ascending(Uuids))}

\* self._local_search_improvement(solution, module_pool, category,
\* prioritized_attrs), as the refinement pass calls it: module_pool is a
\* listing of the candidate modules, which hold the modules of the solution
CallLocalSearchImprovement(solution, pool, cat, prio) ==
    /\ call' = [fn |-> "_local_search_improvement", solution |-> solution,
                module_pool |-> pool, category |-> cat, prioritized_attrs |-> prio]
    /\ returned' = local_search_improvement(solution, Ctx(pool, cat, prio))
    /\ UNCHANGED <<optimizer, frame>>

\* _local_search_improvement keeps no state between calls: a behaviour is
\* one call
NextRefiners ==
    /\ call = NoCall
    /\ \E solution \in RefinerInputs, pool \in ListingsOf(Uuids),
          cat \in Categories, prio \in PrioritySets :
            CallLocalSearchImprovement(solution, pool, cat, prio)

SpecRefiners == Init /\ [][NextRefiners]_vars

\* the pools offered to a direct call of _local_search: every set of at
\* least 4 modules, in ascending and in descending uuid order
LocalSearchPools == UNION {ListingsOf(S) : S \in {T \in SUBSET Uuids : Cardinality(T) >= 4}}

\* _local_search(solution, pool) as line 182 calls it: the solution is made
\* of modules of the pool and carries the score line 178 gave it
CallLocalSearch(modules, pool, cat, prio) ==
    /\ call' = [fn |-> "_local_search", solution |-> Scored(modules, Ctx(pool, cat, prio)),
                pool |-> pool, category |-> cat, prioritized_attrs |-> prio]
    /\ returned' = local_search(Scored(modules, Ctx(pool, cat, prio)), Ctx(pool, cat, prio))
    /\ UNCHANGED <<optimizer, frame>>

\* _local_search keeps no state between calls: a behaviour is one call
NextLocalSearches ==
    /\ call = NoCall
    /\ \E pool \in LocalSearchPools, cat \in Categories, prio \in PrioritySets :
          \E modules \in Combinations(pool) : CallLocalSearch(modules, pool, cat, prio)

SpecLocalSearches == Init /\ [][NextLocalSearches]_vars

-----------------------------------------------------------------------------
(* The two local searches, one loop turn at a time *)

\* the frame of a search that has returned value
ReturnedFrame(value) == [fn |-> "returned", value |-> value]

\* the context of the local search that is running
FrameCtx ==
    Ctx(IF call.fn = "_local_search" THEN call.pool ELSE call.module_pool,
        call.category, call.prioritized_attrs)

\* _local_search(solution, pool) is entered, lines 144-146: best_solution
\* is a copy of solution, improved = False, the for loop is at slot 1
EnterLocalSearch(modules, pool, cat, prio) ==
    /\ call' = [fn |-> "_local_search", solution |-> Scored(modules, Ctx(pool, cat, prio)),
                pool |-> pool, category |-> cat, prioritized_attrs |-> prio]
    /\ frame' = [fn |-> "_local_search",
                 cur |-> [modules |-> SortByUuid(modules),
                          optimization_score |-> Fitness(SortByUuid(modules), Ctx(pool, cat, prio)),
                          improved |-> FALSE],
                 i |-> 1]
    /\ UNCHANGED <<optimizer, returned>>

\* lines 148-162: one turn of the for loop of _local_search: the inner
\* loop over the pool (best), then the adoption of what it found
LocalSearchTurn ==
    /\ frame.fn = "_local_search"
    /\ frame.i <= Len(frame.cur.modules)
    /\ \E best \in {ScanPool(frame.cur.modules, frame.i, FrameCtx,
                              frame.cur.optimization_score)} :
          frame' = [frame EXCEPT !.cur = Adopt(frame.cur, frame.i, best), !.i = frame.i + 1]
    /\ UNCHANGED <<optimizer, call, returned>>

\* lines 145-146 after a pass that adopted a swap: the while loop turns
LocalSearchNextPass ==
    /\ frame.fn = "_local_search"
    /\ frame.i > Len(frame.cur.modules)
    /\ frame.cur.improved
    /\ frame' = [frame EXCEPT !.cur = [frame.cur EXCEPT !.improved = FALSE], !.i = 1]
    /\ UNCHANGED <<optimizer, call, returned>>

\* lines 163-164 after a pass that adopted no swap: break, return; the
\* frame keeps the returned solution
LocalSearchReturn ==
    /\ frame.fn = "_local_search"
    /\ frame.i > Len(frame.cur.modules)
    /\ ~frame.cur.improved
    /\ frame' = ReturnedFrame(WithFound(call.solution, frame.cur))
    /\ UNCHANGED <<optimizer, call, returned>>

\* _local_search_improvement is entered, lines 376-377: best_solution is a
\* copy of solution with its score computed anew
EnterLocalSearchImprovement(solution, pool, cat, prio) ==
    /\ call' = [fn |-> "_local_search_improvement", solution |-> solution,
                module_pool |-> pool, category |-> cat, prioritized_attrs |-> prio]
    /\ frame' = [fn |-> "_local_search_improvement",
                 cur |-> [modules |-> solution.modules,
                          optimization_score |-> Fitness(solution.modules, Ctx(pool, cat, prio))]]
    /\ UNCHANGED <<optimizer, returned>>

\* lines 378-391: a turn of the while loop of _local_search_improvement
\* that meets an improving swap, adopts it and leaves both for loops
ImprovementTurn ==
    /\ frame.fn = "_local_search_improvement"
    /\ ImprovingSwaps(frame.cur.modules, frame.cur.optimization_score, FrameCtx) # {}
    /\ \E first \in {FirstSwap(ImprovingSwaps(frame.cur.modules, frame.cur.optimization_score,
                                              FrameCtx))} :
          frame' = [frame EXCEPT !.cur =
                       Swapped([frame.cur.modules EXCEPT ![first[1]] = FrameCtx.pool[first[2]]],
                               FrameCtx)]
    /\ UNCHANGED <<optimizer, call, returned>>

\* lines 378-393: a turn of the while loop that meets no improving swap:
\* break, return
ImprovementReturn ==
    /\ frame.fn = "_local_search_improvement"
    /\ ImprovingSwaps(frame.cur.modules, frame.cur.optimization_score, FrameCtx) = {}
    /\ frame' = ReturnedFrame(WithFound(call.solution, frame.cur))
    /\ UNCHANGED <<optimizer, call, returned>>

\* a turn of a running local search
SearchTurn ==
    \/ LocalSearchTurn
    \/ LocalSearchNextPass
    \/ LocalSearchReturn
    \/ ImprovementTurn
    \/ ImprovementReturn

\* a behaviour is one call of one of the two searches, on a solution made
\* of modules of the pool
NextSearchTurns ==
    \/ /\ call = NoCall
       /\ \E pool \in LocalSearchPools, cat \in Categories, prio \in PrioritySets :
             \E modules \in Combinations(pool) : EnterLocalSearch(modules, pool, cat, prio)
    \/ /\ call = NoCall
       /\ \E pool \in LocalSearchPools, cat \in Categories, prio \in PrioritySets :
             \E modules \in Combinations(pool) :
                EnterLocalSearchImprovement(ModuleSolution(modules), pool, cat, prio)
    \/ SearchTurn

\* a search runs in one thread that nothing suspends: a turn that can be
\* taken is taken (every turn changes frame)
SpecSearchTurns == Init /\ [][NextSearchTurns]_vars /\ WF_frame(SearchTurn)

\* the scorers keep no state between calls: a behaviour is one call
NextScorers ==
    /\ call = NoCall
    /\ \/ \E modules \in ScorerInputs, cat \in Categories, prio \in PrioritySets :
             CallFitness(modules, cat, prio)
       \/ \E modules \in CombatPowerInputs : CallCombatPower(modules)

SpecScorers == Init /\ [][NextScorers]_vars

-----------------------------------------------------------------------------
(* ModuleParser.parse_module_info, src/module_parser.py: the decoding of   *)
(* the items of the packages into ModuleInfo records.  An item is          *)
(* [ConfigId, ModParts, mod_info]: ModParts is item.ModNewAttr.ModParts    *)
(* (empty also when the item has no ModNewAttr), mod_info is what          *)
(* mod_infos.get(key) gives: an entry with its InitLinkNums, or None.      *)

\* MODULE_ATTR_NAMES of module_types.py: part id -> attribute name
MODULE_ATTR_NAMES == (1 :> "Strength") @@ (2 :> "CritFocus")

\* MODULE_ATTR_NAMES.get(part_id, "unknown attribute (part_id)")
AttrNameOf(part_id) ==
    IF part_id \in DOMAIN MODULE_ATTR_NAMES THEN MODULE_ATTR_NAMES[part_id] ELSE "Unknown"

ModulePart(id, name, value) == [id |-> id, name |-> name, value |-> value]

\* mod_infos.get(key) when the map has no entry for the key, or is empty
NoModInfo == [present |-> FALSE, InitLinkNums |-> <<>>]

ModInfo(init_link_nums) == [present |-> TRUE, InitLinkNums |-> init_link_nums]

RECURSIVE ParsedParts(_, _, _)
\* lines 58-67: for i, part_id in enumerate(mod_parts), from position i on:
\* a part is appended when init_link_nums has a value at the position
ParsedParts(mod_parts, init_link_nums, i) ==
    IF i > Len(mod_parts) THEN <<>>
    ELSE (IF i <= Len(init_link_nums)
          THEN <<ModulePart(mod_parts[i], AttrNameOf(mod_parts[i]), init_link_nums[i])>>
          ELSE <<>>)
         \o ParsedParts(mod_parts, init_link_nums, i + 1)

\* lines 49-55 and 58-67: the ModuleInfo of an item
ParsedModule(item, key) ==
    [config_id |-> item.ConfigId, uuid |-> key,
     parts |-> ParsedParts(item.ModParts, item.mod_info.InitLinkNums, 1)]

RECURSIVE ParseItems(_, _, _, _)
\* lines 41-72: the loop over the items of package p, from item i on;
\* parsed is [raised, modules].  An item without parts ends the loop of
\* its package (break); mod_info.InitLinkNums on None raises AttributeError
ParseItems(items, p, i, parsed) ==
    IF i > Len(items) THEN parsed
    ELSE IF items[i].ModParts = <<>> THEN parsed
    ELSE IF ~items[i].mod_info.present
         THEN [raised |-> "AttributeError", modules |-> <<>>]
    ELSE ParseItems(items, p, i + 1,
                    [parsed EXCEPT !.modules = Append(@, ParsedModule(items[i], <<p, i>>))])

RECURSIVE ParsePackages(_, _, _)
\* lines 40-72: the loop over the packages, from package p on
ParsePackages(packages, p, parsed) ==
    IF p > Len(packages) \/ parsed.raised # "none" THEN parsed
    ELSE ParsePackages(packages, p + 1, ParseItems(packages[p], p, 1, parsed))

\* parse_module_info(v_data): [raised, modules].  Lines 73-91 log the
\* modules and hand them to the optimizer for display inside try/except;
\* they leave the returned list as the loops built it
parse_module_info(packages) ==
    ParsePackages(packages, 1, [raised |-> "none", modules |-> <<>>])

\* the items the model offers: no part ids; part ids without a ModInfos
\* entry; and part ids with fewer, as many and more values
ParserItems ==
    {[ConfigId |-> 1, ModParts |-> t[1], mod_info |-> t[2]] :
        t \in {<<<<>>, ModInfo(<<5>>)>>,
               <<<<1>>, NoModInfo>>,
               <<<<1>>, ModInfo(<<>>)>>,
               <<<<1>>, ModInfo(<<5>>)>>,
               <<<<1>>, ModInfo(<<5, 0>>)>>,
               <<<<1, 2>>, ModInfo(<<5>>)>>,
               <<<<1, 2>>, ModInfo(<<5, 0>>)>>,
               <<<<1, 2>>, ModInfo(<<5, 0, 7>>)>>}}

\* the number of items of a package and of packages of a call
MaxItems == 2
MaxPackages == 2

ParserPackages == UNION {[1..n -> ParserItems] : n \in 0..MaxItems}

ParserInputs == UNION {[1..n -> ParserPackages] : n \in 1..MaxPackages}

\* parser.parse_module_info(v_data)
CallParse(packages) ==
    /\ call' = [fn |-> "parse_module_info", packages |-> packages]
    /\ returned' = parse_module_info(packages)
    /\ UNCHANGED <<optimizer, frame>>

\* parse_module_info keeps no state between calls: a behaviour is one call
NextParsers ==
    /\ call = NoCall
    /\ \E packages \in ParserInputs : CallParse(packages)

SpecParsers == Init /\ [][NextParsers]_vars

-----------------------------------------------------------------------------
(* Properties *)

\* every solution the call holds: in a campaign's population or next
\* generation, in the merged list, in the returned list
HeldSolutions ==
    Range(result) \cup Range(all_best_solutions)
    \cup UNION {Range(futures[w].population) \cup Range(futures[w].next_gen) : w \in Workers}

\* the pool after the category filter and the strict filter
FilteredPool == StrictFiltered(CategoryFiltered(arg_modules, category), prioritized_attrs)

\* a returned solution holds a module of the low-quality pool
ReturnedWithLowQuality(i) ==
    Range(result[i].modules) \cap Range(low_quality_modules) # {}

\* C1: every solution optimize_modules returns, and every solution a
\* campaign, the merge or the refinement holds on the way, has exactly 4
\* modules that are pairwise distinct by uuid.
C1_FourDistinctModules ==
    \A sol \in HeldSolutions :
        Len(sol.modules) = 4 /\ Cardinality(Range(sol.modules)) = 4

\* the call returned at least two solutions, one of which the refinement
\* pass built by swapping a low-quality module in
C1_Witness ==
    /\ pc = "done"
    /\ Len(result) >= 2
    /\ \E i \in DOMAIN result : ReturnedWithLowQuality(i)

\* C2 (as stated): a pool of exactly 4 modules, category All, no priority
\* filter, no campaign ended by a fault of its environment: the call returns
\* exactly one solution, made of those 4 modules, whose combat power is
\* calculate_combat_power of those 4 modules.
C2_FourModulePoolReturned ==
    ( /\ pc = "done"
      /\ Len(arg_modules) = 4
      /\ category = "All"
      /\ prioritized_attrs = {}
      /\ \A w \in Workers : futures[w].error # "MemoryError" )
    => /\ Len(result) = 1
       /\ result[1].modules = SortByUuid(arg_modules)
       /\ result[1].score = calculate_combat_power(arg_modules).score

\* C3: the returned list is ordered by combat power (score), non-increasing,
\* whatever the optimization scores are.
C3_OrderedByCombatPower ==
    \A i \in 1..(Len(result) - 1) : result[i].score >= result[i + 1].score

\* two neighbours of the returned list whose combat powers and optimization
\* scores are in opposite orders
C3_Witness ==
    /\ pc = "done"
    /\ \E i \in 1..(Len(result) - 1) :
          /\ result[i].score > result[i + 1].score
          /\ result[i].optimization_score < result[i + 1].optimization_score

\* a call on a pool of 6 modules with category All and no priority filter
\* has returned
SixModuleCallDone ==
    /\ pc = "done"
    /\ Len(arg_modules) = 6
    /\ category = "All"
    /\ prioritized_attrs = {}

\* C4 (as stated): for a 6-module pool, category All, no priority filter,
\* the returned list has strictly descending combat power.
C4_StrictlyDescending ==
    SixModuleCallDone =>
        \A i \in 1..(Len(result) - 1) : result[i].score > result[i + 1].score

\* C4 (amended): for a 6-module pool, category All, no priority filter, the
\* returned list has non-increasing combat power and no two returned
\* solutions have the same attribute-level key; equal combat powers occur.
C4_DistinctLevelKeys ==
    SixModuleCallDone =>
        /\ \A i \in 1..(Len(result) - 1) : result[i].score >= result[i + 1].score
        /\ \A i, j \in DOMAIN result :
              i # j => get_attribute_level_key(result[i].attr_breakdown)
                       # get_attribute_level_key(result[j].attr_breakdown)

\* two returned solutions of a 6-module call with the same combat power
C4_Witness ==
    /\ SixModuleCallDone
    /\ \E i \in 1..(Len(result) - 1) : result[i].score = result[i + 1].score

\* C5: no two solutions of the returned list have the same combination id.
C5_NoDuplicateCombination ==
    \A i, j \in DOMAIN result :
        i # j => get_combination_id(result[i]) # get_combination_id(result[j])

\* the call returned at least two solutions although the low-quality pool
\* was empty, so that refined_solutions was unique_solutions and the
\* concatenation held every combination twice
C5_Witness ==
    /\ pc = "done"
    /\ Len(result) >= 2
    /\ low_quality_modules = <<>>
    /\ all_best_solutions # <<>>

\* the infeasible cases: the filtered pool is empty or prefilters to fewer
\* than 4 candidates, or a priority set is given and fewer than 2 of the
\* pool's attribute names are in it
Infeasible ==
    \/ FilteredPool = <<>>
    \/ Cardinality(PrefilterSet(FilteredPool)) < 4
    \/ /\ prioritized_attrs # {}
       /\ Cardinality(AttrNames(FilteredPool) \cap prioritized_attrs) < 2

\* C6: in every infeasible case the call returns the empty list and no
\* campaign is submitted.
C6_InfeasibleReturnsEmpty ==
    (pc # "idle" /\ Infeasible) =>
        /\ pc = "done"
        /\ result = <<>>
        /\ futures = <<>>

\* a call with a priority set that left a pool with modules but with fewer
\* than 2 attribute names of the set has returned
C6_Witness ==
    /\ pc = "done"
    /\ prioritized_attrs # {}
    /\ FilteredPool # <<>>
    /\ Cardinality(AttrNames(FilteredPool) \cap prioritized_attrs) < 2
    /\ result = <<>>

\* C7: a campaign that fails does not stop the call: what it held is left
\* out, the merged list holds exactly the solutions of the campaigns that
\* succeeded and were collected, a call with a campaign that succeeded
\* returns solutions, and a call whose campaigns all failed returns the
\* empty list.
C7_FailedWorkerIsolated ==
    /\ Range(all_best_solutions) =
          UNION {Range(futures[w].population) : w \in {v \in consumed : futures[v].st = "done"}}
    /\ (pc = "done" /\ futures # <<>> /\ \A w \in Workers : futures[w].st = "failed")
          => result = <<>>
    /\ (pc = "done" /\ \E w \in Workers : futures[w].st = "done" /\ futures[w].population # <<>>)
          => result # <<>>

\* the call returned solutions although one of its campaigns failed
C7_Witness ==
    /\ pc = "done"
    /\ \E w \in Workers : futures[w].st = "failed"
    /\ \E w \in Workers : futures[w].st = "done"
    /\ result # <<>>

\* C8 (as stated): with a priority set given, calculate_fitness returns 0
\* for every module list whose breakdown holds fewer than 2 attributes of
\* the set.
C8_ZeroBelowTwoMatches ==
    ( /\ call.fn = "calculate_fitness"
      /\ call.prioritized_attrs # {}
      /\ Cardinality(call.prioritized_attrs \cap DOMAIN AttrBreakdown(call.modules)) < 2 )
    => returned = 0

\* C9: with a priority set given, every attribute name of every solution
\* the call returns, and of every solution it holds on the way, is in the
\* set.
C9_OnlyPrioritizedAttributes ==
    prioritized_attrs # {} =>
        /\ \A sol \in HeldSolutions : AttrNames(sol.modules) \subseteq prioritized_attrs
        /\ \A i \in DOMAIN result : DOMAIN result[i].attr_breakdown \subseteq prioritized_attrs

\* a call with a priority set returned solutions after the strict filter
\* had removed a module of the argument
C9_Witness ==
    /\ pc = "done"
    /\ prioritized_attrs # {}
    /\ Len(module_pool) < Len(CategoryFiltered(arg_modules, category))
    /\ result # <<>>

\* C10: the derived fields of every returned solution agree with its
\* modules: attr_breakdown is the per-attribute sum of the part values,
\* score is the combat power, optimization_score is the fitness.
C10_DerivedFieldsAgree ==
    \A i \in DOMAIN result :
        /\ result[i].attr_breakdown = AttrBreakdown(result[i].modules)
        /\ result[i].score = calculate_combat_power(result[i].modules).score
        /\ result[i].optimization_score =
              calculate_fitness(result[i].modules, category, prioritized_attrs)

\* a returned solution that the refinement pass built, with a module set
\* and an optimization score no campaign returned
C10_Witness ==
    /\ pc = "done"
    /\ \E i \in DOMAIN result :
          /\ ReturnedWithLowQuality(i)
          /\ \A sol \in Range(all_best_solutions) :
                sol.optimization_score # result[i].optimization_score

\* C11 (as stated): with part values that are non-negative integers, 0
\* allowed, no attr_breakdown of a returned solution, and no breakdown that
\* calculate_combat_power returns, has an entry whose value is 0.
C11_NoZeroEntry ==
    /\ \A i \in DOMAIN result :
          \A a \in DOMAIN result[i].attr_breakdown : result[i].attr_breakdown[a] # 0
    /\ call.fn = "calculate_combat_power" =>
          \A a \in DOMAIN returned.attr_breakdown : returned.attr_breakdown[a] # 0

\* final_results and deduplicated_solutions of the call that has returned
ReturnedFinalResults ==
    FinalResults(all_best_solutions, candidate_modules, low_quality_modules,
                 category, prioritized_attrs)

ReturnedDeduplicated ==
    FinalSolutions(all_best_solutions, candidate_modules, low_quality_modules,
                   category, prioritized_attrs)

\* deduplicated holds at most one solution per attribute-tier profile, and
\* it is its own deduplication
OnePerProfile(deduplicated) ==
    /\ \A i, j \in DOMAIN deduplicated :
          i # j => get_attribute_level_key(deduplicated[i].attr_breakdown)
                   # get_attribute_level_key(deduplicated[j].attr_breakdown)
    /\ DedupByAttrLevel(deduplicated) = deduplicated

\* C12: the attribute-tier deduplication is idempotent: its output holds at
\* most one solution per attribute-tier profile (a name of tier 0 included),
\* and the deduplication of its output is that output, before and after
\* the sort by combat power.
C12_DedupIdempotent ==
    pc = "done" =>
        /\ OnePerProfile(DedupByAttrLevel(ReturnedFinalResults))
        /\ OnePerProfile(ReturnedDeduplicated)

\* final_results repeats at least two attribute-tier profiles, and two
\* profiles are left, one of them with an attribute of tier 0
DedupDropped(final_results, deduplicated) ==
    /\ Len(deduplicated) >= 2
    /\ Len(final_results) >= Len(deduplicated) + 2
    /\ \E i \in DOMAIN deduplicated :
          0 \in Range(get_attribute_level_key(deduplicated[i].attr_breakdown))

C12_Witness == pc = "done" /\ DedupDropped(ReturnedFinalResults, ReturnedDeduplicated)

\* C13: calculate_combat_power is order-independent: a call on a list of
\* 4 modules returns the score and the attribute breakdown that the call
\* on every other order of the same 4 modules returns.
C13_OrderIndependent ==
    call.fn = "calculate_combat_power" =>
        \A other \in DistinctSeqs(Range(call.modules), Len(call.modules)) :
            calculate_combat_power(other) = returned

\* a call on a list that is not in uuid order and in which two modules add
\* different values to the same attribute
C13_Witness ==
    /\ call.fn = "calculate_combat_power"
    /\ call.modules # SortByUuid(call.modules)
    /\ \E a \in DOMAIN returned.attr_breakdown :
          /\ ModuleAttrValue(call.modules[1], a) > 0
          /\ ModuleAttrValue(call.modules[4], a) > ModuleAttrValue(call.modules[1], a)
    /\ returned.score > 0

\* the position of module m in the list
PositionIn(list, m) == CHOOSE i \in DOMAIN list : list[i] = m

\* the number of modules of the list ranked before m by value, descending,
\* modules of equal value in the order of the list
RankedBefore(list, value, m) ==
    Cardinality({x \in Range(list) :
        \/ value[x] > value[m]
        \/ value[x] = value[m] /\ PositionIn(list, x) < PositionIn(list, m)})

\* the modules prefilter_modules has to keep: for every attribute name, the
\* k1 modules ranked highest by that attribute's value among the modules
\* that have it, and the k2 modules ranked highest by total part value
MustKeep(list, k1, k2) ==
    {m \in Range(list) :
        \/ \E a \in AttrNames(<<m>>) :
              RankedBefore(SelectSeq(list, LAMBDA x : a \in AttrNames(<<x>>)),
                           [u \in Uuids |-> ModuleAttrValue(u, a)], m) < k1
        \/ RankedBefore(list, [u \in Uuids |-> TotalValue(u)], m) < k2}

\* C14: prefilter_modules returns modules of its input, none of them twice;
\* the returned modules are, for every attribute name of the pool, the K1
\* modules ranked highest by that attribute's value, and the K2 modules
\* ranked highest by total part value (equal values in input order); an
\* input of at most K2 modules is returned whole.
C14_PrefilterKeepsTopRanked ==
    call.fn = "prefilter_modules" =>
        /\ Range(returned) \subseteq Range(call.modules)
        /\ Cardinality(Range(returned)) = Len(returned)
        /\ Range(returned) = MustKeep(call.modules, call.top_n_per_attr, call.top_n_total_value)
        /\ Len(call.modules) <= call.top_n_total_value => Range(returned) = Range(call.modules)

\* a call that dropped a module which ties with a kept one, on a pool
\* larger than both limits
C14_Witness ==
    /\ call.fn = "prefilter_modules"
    /\ Len(call.modules) > call.top_n_total_value
    /\ Len(call.modules) > call.top_n_per_attr
    /\ \E kept \in Range(returned), dropped \in Range(call.modules) \ Range(returned) :
          /\ PartsOf(kept) = PartsOf(dropped)
          /\ PositionIn(call.modules, kept) < PositionIn(call.modules, dropped)

\* the item at position key of the packages
ItemAt(packages, key) == packages[key[1]][key[2]]

\* the keys of the module records of the packages: the items with part ids
\* that no item without part ids precedes in their package
ModuleRecordKeys(packages) ==
    {key \in (DOMAIN packages) \X (1..MaxItems) :
        /\ key[2] \in DOMAIN packages[key[1]]
        /\ \A i \in 1..key[2] : packages[key[1]][i].ModParts # <<>>}

\* C15 (as stated): whatever the numbers of part ids and of attribute values
\* of a module record are, the record is not rejected: the call returns, and
\* the module is emitted with exactly min(number of part ids, number of
\* values) parts, part i paired with value i.
C15_TruncatedNotRejected ==
    call.fn = "parse_module_info" =>
        /\ returned.raised = "none"
        /\ {returned.modules[k].uuid : k \in DOMAIN returned.modules}
              = ModuleRecordKeys(call.packages)
        /\ \A k \in DOMAIN returned.modules :
              LET item == ItemAt(call.packages, returned.modules[k].uuid)
                  parts == returned.modules[k].parts
              IN /\ Len(parts) = Min2(Len(item.ModParts), Len(item.mod_info.InitLinkNums))
                 /\ \A i \in DOMAIN parts :
                       /\ parts[i].id = item.ModParts[i]
                       /\ parts[i].value = item.mod_info.InitLinkNums[i]

\* the solutions the refinement pass of the call is run on (lines 343-348)
SolutionsToRefine ==
    IF low_quality_modules = <<>> THEN <<>>
    ELSE Take(SortByOptimizationScore(UniqueByCombination(all_best_solutions)), RefineLimit)

\* the swaps the refinement pass of the call adopted
RefinementSwaps ==
    UNION {Range(ImprovementSwaps(
                    [modules |-> SolutionsToRefine[i].modules,
                     optimization_score |->
                        Fitness(SolutionsToRefine[i].modules,
                                Ctx(candidate_modules, category, prioritized_attrs))],
                    Ctx(candidate_modules, category, prioritized_attrs))) :
           i \in DOMAIN SolutionsToRefine}

\* the swap is best-improvement: no candidate-pool module outside the
\* solution gives its slot a higher fitness than the adopted replacement
BestForSlot(swap, ctx) ==
    \A k \in DOMAIN ctx.pool :
        ctx.pool[k] \notin Range(swap.modules) =>
            Fitness([swap.modules EXCEPT ![swap.slot] = ctx.pool[k]], ctx) <= swap.new_score

\* the arguments of the direct call of _local_search_improvement
CallCtx == Ctx(call.module_pool, call.category, call.prioritized_attrs)

\* the swaps the direct call of _local_search_improvement adopted
CallSwaps ==
    Range(ImprovementSwaps([modules |-> call.solution.modules,
                            optimization_score |-> Fitness(call.solution.modules, CallCtx)],
                           CallCtx))

\* C16 (as stated): every swap the local search of the refinement pass
\* adopts is best-improvement: the replacement has the highest fitness, for
\* the slot being changed, among the candidate-pool modules not in the
\* solution.
C16_RefinementBestImprovement ==
    /\ pc = "done" =>
          \A swap \in RefinementSwaps :
              BestForSlot(swap, Ctx(candidate_modules, category, prioritized_attrs))
    /\ call.fn = "_local_search_improvement" =>
          \A swap \in CallSwaps : BestForSlot(swap, CallCtx)

\* the candidate modules whose part values sum to the quality threshold or
\* more
AtThreshold == {m \in Range(candidate_modules) : TotalValue(m) >= quality_threshold}

\* the modules a campaign was given or holds in a solution
CampaignModules ==
    Range(WorkerCtx.pool)
    \cup UNION {Range(sol.modules) :
                sol \in UNION {Range(futures[w].population) \cup Range(futures[w].next_gen) :
                               w \in Workers}}

\* C17 (as stated): for every candidate pool of at least 4 modules, every
\* module passed to run_single_ga_campaign has a total part-value sum of at
\* least the quality threshold.
C17_WorkersGetHighQualityOnly ==
    (futures # <<>> /\ Len(candidate_modules) >= 4) =>
        \A m \in CampaignModules : TotalValue(m) >= quality_threshold

\* C17 (amended): when at least 4 candidate modules reach the quality
\* threshold, the campaigns are given exactly those modules and hold no
\* other module; when fewer than 4 do, the campaigns are given the whole
\* candidate pool, low-quality modules included.
C17_HighQualityOrWholePool ==
    futures # <<>> =>
        /\ Len(candidate_modules) >= 4
        /\ Cardinality(AtThreshold) >= 4 =>
              /\ Range(WorkerCtx.pool) = AtThreshold
              /\ \A m \in CampaignModules : TotalValue(m) >= quality_threshold
        /\ Cardinality(AtThreshold) < 4 =>
              /\ WorkerCtx.pool = candidate_modules
              /\ low_quality_modules = <<>>

\* a campaign returned a population while the candidate pool held a module
\* below the quality threshold that the campaigns were not given
C17_Witness ==
    /\ \E w \in Workers : futures[w].st = "done" /\ futures[w].population # <<>>
    /\ Range(candidate_modules) \ AtThreshold # {}
    /\ Range(WorkerCtx.pool) = AtThreshold

\* the solution is a local optimum of fitness over the pool: no module of
\* the pool that is in none of the other slots gives a slot a strictly
\* higher calculate_fitness
LocalOptimum(modules, pool, cat, prio) ==
    \A i \in DOMAIN modules, k \in DOMAIN pool :
        pool[k] \notin {modules[j] : j \in DOMAIN modules \ {i}} =>
            calculate_fitness([modules EXCEPT ![i] = pool[k]], cat, prio)
                <= calculate_fitness(modules, cat, prio)

RECURSIVE AfterSlots(_, _, _)
\* the search after the slots 1..n of a pass that starts from cur
AfterSlots(cur, n, ctx) ==
    IF n = 0 THEN cur ELSE LocalSearchSlot(AfterSlots(cur, n - 1, ctx), n, ctx)

\* the pass adopts for slot i a replacement that the sort by uuid moves to
\* another slot
MovedBySort(cur, i, ctx) ==
    LET before == AfterSlots(cur, i - 1, ctx)
        best == ScanPool(before.modules, i, ctx, before.optimization_score)
    IN /\ best.replacement # 0
       /\ SortByUuid([before.modules EXCEPT ![i] = best.replacement])[i] # best.replacement

\* the first pass of the search adopted a swap that the sort moved, and did
\* not end in the solution the search returned: a later pass adopted a swap
SecondPassNeeded(start, ctx, found) ==
    /\ \E i \in DOMAIN start.modules : MovedBySort(start, i, ctx)
    /\ AfterSlots(start, Len(start.modules), ctx).modules # found.modules

\* C18: the solution the campaign worker's local search returns is a local
\* optimum of fitness over the worker's pool, also when a swap adopted in
\* the middle of a pass re-sorted the module list; its optimization_score
\* is its fitness.
C18_LocalSearchReturnsLocalOptimum ==
    /\ call.fn = "_local_search" =>
          /\ LocalOptimum(returned.modules, call.pool, call.category, call.prioritized_attrs)
          /\ returned.optimization_score
                = calculate_fitness(returned.modules, call.category, call.prioritized_attrs)
    /\ \A w \in Workers :
          (futures[w].st = "done" /\ futures[w].population # <<>>) =>
              LocalOptimum(futures[w].population[1].modules, WorkerCtx.pool,
                           category, prioritized_attrs)

\* a direct call whose first pass adopted a swap that the sort moved to
\* another slot, and which needed a later pass to reach what it returned
C18_Witness ==
    /\ call.fn = "_local_search"
    /\ SecondPassNeeded([modules |-> call.solution.modules,
                         optimization_score |-> call.solution.optimization_score,
                         improved |-> FALSE],
                        Ctx(call.pool, call.category, call.prioritized_attrs), returned)

\* the positions of the progress messages of the given kind
MessagesOf(kind) == {i \in DOMAIN progress : progress[i][1] = kind}

\* C19: the refinement phase is a barrier: the refinement-start message is
\* delivered, and the refinement local search runs, only after every
\* submitted campaign future has finished with a result or a failure and
\* was collected; no per-worker completion message follows the
\* refinement-start message.
C19_RefinementBarrier ==
    /\ (MessagesOf("refine") # {} \/ pc = "refine" \/ (pc = "done" /\ futures # <<>>)) =>
          /\ \A w \in Workers : futures[w].st \in {"done", "failed"}
          /\ consumed = Workers
          /\ Cardinality(MessagesOf("refine")) = 1
    /\ \A i \in MessagesOf("refine"), j \in MessagesOf("task") : j < i
    /\ \A i \in MessagesOf("finished"), j \in MessagesOf("refine") : j < i

\* a call has returned whose campaigns ended one with a failure and one
\* with a result, the completion message of the latter before the
\* refinement-start message
C19_Witness ==
    /\ pc = "done"
    /\ \E w \in Workers : futures[w].st = "failed"
    /\ MessagesOf("task") # {}
    /\ MessagesOf("refine") # {}
    /\ low_quality_modules # <<>>

\* the number of sets of 4 modules of the pool
FourSubsets(pool) == Cardinality({S \in SUBSET Range(pool) : Cardinality(S) = 4})

\* the campaign is at line 168, its population as _initialize_population
\* returned it
JustInitialized(w) == futures[w].st = "generation" /\ futures[w].generation = 0

\* C20: on a pool of n modules with distinct uuids, _initialize_population
\* gives exactly min(population_size, C(n, 4)) solutions with pairwise
\* distinct combination ids, made of modules of the pool; for n < 4 the
\* campaign returns the empty population without running a generation.
C20_InitialPopulationSize ==
    \A w \in Workers :
        /\ JustInitialized(w) =>
              /\ Len(futures[w].population)
                    = Min2(population_size, FourSubsets(WorkerCtx.pool))
              /\ \A i, j \in DOMAIN futures[w].population :
                    i # j => get_combination_id(futures[w].population[i])
                             # get_combination_id(futures[w].population[j])
              /\ \A i \in DOMAIN futures[w].population :
                    /\ Range(futures[w].population[i].modules) \subseteq Range(WorkerCtx.pool)
                    /\ Cardinality(Range(futures[w].population[i].modules)) = 4
        /\ (Len(WorkerCtx.pool) < 4 /\ futures[w].st # "pending") =>
              futures[w] = Returned(<<>>)
        /\ (Len(WorkerCtx.pool) >= 4 /\ futures[w].st # "pending") =>
              futures[w] # Returned(<<>>)

\* a campaign on a pool with more sets of 4 modules than population_size
\* has its initial population
C20_Witness ==
    \E w \in Workers :
        /\ JustInitialized(w)
        /\ FourSubsets(WorkerCtx.pool) > population_size
        /\ Len(futures[w].population) = population_size

\* the highest optimization_score of a population that is not empty
BestScore(population) ==
    CHOOSE x \in Range(OptScores(population)) :
        \A y \in Range(OptScores(population)) : y <= x

\* C21: with an elite count of at least 1, the highest optimization_score
\* of a campaign's population never decreases from one generation to the
\* next, up to the population the campaign returns.
C21_BestScoreNeverDecreases ==
    [][\A w \in DOMAIN futures \cap DOMAIN futures' :
          (futures[w].population # <<>> /\ futures'[w].population # <<>>) =>
              BestScore(futures'[w].population) >= BestScore(futures[w].population)]_vars

\* a campaign returned the population of its last generation, and the
\* population holds a member from which the swaps of _local_search do not
\* reach the best score: the best member is not owed to local search alone
C21_Witness ==
    \E w \in Workers :
        /\ futures[w].st = "done"
        /\ Len(futures[w].population) = population_size
        /\ \E i \in 2..population_size :
              local_search(futures[w].population[i], WorkerCtx).optimization_score
                  < BestScore(futures[w].population)

\* the module list a running search holds, <<>> when none runs
HeldModules(f) == IF f.fn \in {"none", "returned"} THEN <<>> ELSE f.cur.modules

\* every change of the module list of a running search strictly raises its
\* fitness, and the stored score is that fitness
SwapsRaiseFitness ==
    [][(HeldModules(frame) # <<>> /\ HeldModules(frame') # <<>>
            /\ HeldModules(frame') # HeldModules(frame)) =>
          /\ Fitness(HeldModules(frame'), FrameCtx) > Fitness(HeldModules(frame), FrameCtx)
          /\ frame'.cur.optimization_score = Fitness(HeldModules(frame'), FrameCtx)]_frame

\* C22: _local_search and _local_search_improvement terminate for every
\* pool and every starting solution: every adopted swap strictly raises
\* the fitness of the solution, and every search that was entered returns.
C22_LocalSearchesTerminate ==
    /\ SwapsRaiseFitness
    /\ (frame # NoFrame) ~> (frame.fn = "returned")

\* a _local_search that adopted a swap in its second pass has returned
C22_Witness ==
    /\ call.fn = "_local_search"
    /\ frame.fn = "returned"
    /\ frame.value.modules # call.solution.modules
    /\ LocalSearchLoopOnePass([modules |-> call.solution.modules,
                               optimization_score |-> call.solution.optimization_score,
                               improved |-> TRUE], FrameCtx).modules # frame.value.modules

=============================================================================
